---- MODULE Spec2Model ----
(***************************************************************************)
(* A model of the smc-dining-ocr core: the line grouper and field          *)
(* extractor of ocr_items.py, the range sanitizer and aggregator of        *)
(* utils.py, the e-mail dispatcher of emailer.py and the merged-item       *)
(* splitter of app.py.                                                     *)
(*                                                                         *)
(* Conventions.  A Python string is a sequence of one-character strings.   *)
(* An Optional value is a sequence of length 0 (None) or 1 (the value).    *)
(* A tuple (y, x, txt, conf) is the TLA+ tuple <<y, x, txt, conf>>.        *)
(***************************************************************************)
EXTENDS Integers, Sequences, FiniteSets, TLC

VARIABLES pc,
          data, y_tol, lines,
          tokens, conf_threshold, item_qty,
          img, df_out,
          q, min_q, max_q, sanitized,
          df, agg,
          env, mail, transport, outcome,
          rows, aggregated

grpVars == <<data, y_tol, lines>>
extVars == <<tokens, conf_threshold, item_qty>>
eiqVars == <<img, df_out>>
sanVars == <<q, min_q, max_q, sanitized>>
sumVars == <<df, agg>>
emlVars == <<env, mail, transport, outcome>>
parVars == <<rows, aggregated>>
vars == <<pc, grpVars, extVars, eiqVars, sanVars, sumVars, emlVars, parVars>>

None == <<>>
Some(v) == <<v>>

SeqsUpTo(S, n) == UNION {[1..k -> S] : k \in 0..n}

RECURSIVE Flatten(_)
Flatten(ss) == IF ss = <<>> THEN <<>> ELSE Head(ss) \o Flatten(Tail(ss))

Count(s, e) == Cardinality({i \in DOMAIN s : s[i] = e})

Range(s) == {s[i] : i \in DOMAIN s}

(***************************************************************************)
(* Values the other components hold while one component is exercised.      *)
(***************************************************************************)
IdleGrp == data = <<>> /\ y_tol = 0 /\ lines = <<>>
IdleExt == tokens = <<>> /\ conf_threshold = 0 /\ item_qty = <<None, None>>
IdleEiq == img = <<>> /\ df_out = <<>>
IdleSan == q = [kind |-> "none", num |-> 0, txt |-> <<>>] /\ min_q = 0 /\ max_q = 0 /\ sanitized = None
IdleSum == df = <<>> /\ agg = <<>>
IdleEml == env = [sendgrid_key |-> FALSE, smtp_pass |-> FALSE] /\ mail = <<>>
           /\ transport = <<>> /\ outcome = <<>>
IdlePar == rows = <<>> /\ aggregated = <<>>

(***************************************************************************)
(* ocr_items.py: _group_lines                                              *)
(***************************************************************************)
MaxBoxes == 3
MaxY == 2

\* str.strip(): leading and trailing whitespace removed.
IsSpace(c) == c = " "

RECURSIVE LStrip(_)
LStrip(s) == IF s # <<>> /\ IsSpace(Head(s)) THEN LStrip(Tail(s)) ELSE s

RECURSIVE RStrip(_)
RStrip(s) == IF s # <<>> /\ IsSpace(s[Len(s)]) THEN RStrip(SubSeq(s, 1, Len(s) - 1)) ELSE s

Strip(s) == RStrip(LStrip(s))

\* Python's int() of a number: truncation toward zero.  n / d with d > 0.
Trunc(n, d) == IF n >= 0 THEN n \div d ELSE -((-n) \div d)

\* The OCR confidence as delivered: None-like/unparseable (<<>>) or a number,
\* held in halves (<<181>> is 90.5).  int(float(c)), or -1 when that raises.
ParseConf(c) == IF c = <<>> THEN -1 ELSE Trunc(c[1], 2)

\* One entry of the OCR dictionary (the i-th element of its parallel lists).
RawEntries ==
  { [text |-> <<" ">>, conf |-> <<-2>>, top |-> y, left |-> 0] : y \in 0..MaxY }
  \cup { [text |-> <<"a">>, conf |-> <<181>>, top |-> y, left |-> x] : y \in 0..MaxY, x \in {0, 1} }
  \cup { [text |-> <<" ", "b", " ">>, conf |-> <<>>, top |-> y, left |-> 1] : y \in 0..MaxY }
Tols == {0, 1}

\* Lines 15-26: the entries with non-blank text, as (y, x, txt, conf).
RECURSIVE CollectPts(_)
CollectPts(d) ==
  IF d = <<>> THEN <<>>
  ELSE LET e == Head(d)
           txt == Strip(e.text)
       IN  IF txt = <<>> THEN CollectPts(Tail(d))
           ELSE <<<<e.top, e.left, txt, ParseConf(e.conf)>>>> \o CollectPts(Tail(d))

\* Line 27: the sort key (y, x), compared lexicographically.
KeyLess(a, b) == a[1] < b[1] \/ (a[1] = b[1] /\ a[2] < b[2])

\* Line 27: list.sort is stable: an element goes after every element whose
\* key is not greater.
RECURSIVE InsertSorted(_, _)
InsertSorted(s, e) ==
  IF s = <<>> THEN <<e>>
  ELSE IF KeyLess(e, Head(s)) THEN <<e>> \o s
       ELSE <<Head(s)>> \o InsertSorted(Tail(s), e)

RECURSIVE SortPts(_)
SortPts(p) == IF p = <<>> THEN <<>> ELSE InsertSorted(SortPts(SubSeq(p, 1, Len(p) - 1)), p[Len(p)])

Abs(n) == IF n < 0 THEN -n ELSE n

\* Line 30: the box joins the current line.
SameLineStrict(prev_y, y, tol) == prev_y = None \/ Abs(y - prev_y[1]) < tol
SameLine(prev_y, y, tol) == prev_y = None \/ Abs(y - prev_y[1]) <= tol

\* Lines 33 and 36: a non-empty current line is closed.
CloseLineDrop(ls, cur) == ls
CloseLine(ls, cur) == IF cur # <<>> THEN Append(ls, cur) ELSE ls

\* Lines 28-36: the walk over the sorted boxes.
RECURSIVE Walk(_, _, _, _, _)
Walk(p, tol, ls, cur, prev_y) ==
  IF p = <<>> THEN CloseLine(ls, cur)
  ELSE LET b == Head(p)
       IN  IF SameLine(prev_y, b[1], tol)
           THEN Walk(Tail(p), tol, ls, Append(cur, b), Some(b[1]))
           ELSE Walk(Tail(p), tol, CloseLine(ls, cur), <<b>>, Some(b[1]))

group_lines(d, tol) == Walk(SortPts(CollectPts(d)), tol, <<>>, <<>>, None)

InitGroup ==
  /\ pc = "start"
  /\ data \in SeqsUpTo(RawEntries, MaxBoxes)
  /\ y_tol \in Tols
  /\ lines = <<>>
  /\ IdleExt /\ IdleEiq /\ IdleSan /\ IdleSum /\ IdleEml /\ IdlePar

GroupLines ==
  /\ pc = "start"
  /\ lines' = group_lines(data, y_tol)
  /\ pc' = "done"
  /\ UNCHANGED <<data, y_tol, extVars, eiqVars, sanVars, sumVars, emlVars, parVars>>

NextGroup == GroupLines

SpecGroup == InitGroup /\ [][NextGroup]_vars

\* The WordBoxes of the input: its entries with non-blank text, normalised.
WordBoxes == CollectPts(data)

\* C1: every input WordBox lies in exactly one output Line: each box occurs in
\* the Lines together exactly as often as it occurs in the input, and the
\* Lines hold nothing else.
C1_PartitionComplete ==
  pc = "done" =>
    /\ Len(Flatten(lines)) = Len(WordBoxes)
    /\ \A b \in Range(WordBoxes) \cup Range(Flatten(lines)) :
         Count(Flatten(lines), b) = Count(WordBoxes, b)

\* C1 witness: a grouping of two WordBoxes into two Lines, a blank entry of the
\* OCR output being no WordBox.
C1_Witness ==
  /\ pc = "done"
  /\ Len(lines) = 2
  /\ Len(WordBoxes) = 2
  /\ Len(data) = 3

KeyLeq(a, b) == ~KeyLess(b, a)

\* C9: the Lines are the consecutive runs of the boxes sorted by (y, x): no Line
\* is empty, the boxes read Line after Line ascend by (y, x), Lines are ordered
\* by their first box, and two neighbours of the sorted sequence share a Line
\* exactly when their y values differ by at most y_tol.
C9_ConsecutiveRuns ==
  pc = "done" =>
    LET flat == Flatten(lines) IN
    /\ \A i \in DOMAIN lines : lines[i] # <<>>
    /\ \A i \in 1..(Len(flat) - 1) : KeyLeq(flat[i], flat[i + 1])
    /\ \A i \in 1..(Len(lines) - 1) : KeyLeq(lines[i][1], lines[i + 1][1])
    /\ \A i \in DOMAIN lines : \A j \in 1..(Len(lines[i]) - 1) :
         Abs(lines[i][j + 1][1] - lines[i][j][1]) <= y_tol
    /\ \A i \in 1..(Len(lines) - 1) :
         Abs(lines[i + 1][1][1] - lines[i][Len(lines[i])][1]) > y_tol

\* C9 witness: a Line that creeps: its last box is further than y_tol from its
\* first box, each box being within y_tol of its predecessor.
C9_Witness ==
  /\ pc = "done"
  /\ \E i \in DOMAIN lines :
       /\ Len(lines[i]) = 3
       /\ lines[i][3][1] - lines[i][1][1] > y_tol

(***************************************************************************)
(* ocr_items.py: _extract_line_item_and_qty                                *)
(***************************************************************************)
MaxTokens == 3
ITEM_TOKEN_MIN_LEN == 2

Digits == {"0", "1", "2", "3", "4", "5", "6", "7", "8", "9"}
Letters == {"a", "b", "c", "A", "B", "C"}

DigitVal(c) ==
  CASE c = "0" -> 0 [] c = "1" -> 1 [] c = "2" -> 2 [] c = "3" -> 3 [] c = "4" -> 4
    [] c = "5" -> 5 [] c = "6" -> 6 [] c = "7" -> 7 [] c = "8" -> 8 [] c = "9" -> 9

\* str.isdigit(): non-empty and every character a digit.
IsDigit(txt) == txt # <<>> /\ \A i \in DOMAIN txt : txt[i] \in Digits

\* int(txt) of a digit string: its decimal value.
RECURSIVE IntOfDigits(_)
IntOfDigits(txt) ==
  IF txt = <<>> THEN 0
  ELSE 10 * IntOfDigits(SubSeq(txt, 1, Len(txt) - 1)) + DigitVal(txt[Len(txt)])

\* ALPHA_RE.search(txt): some character in [A-Za-z].
AlphaSearch(txt) == \E i \in DOMAIN txt : txt[i] \in Letters

\* The character class [A-Za-z0-9'/-] of line 48.
IsItemCharNoHyphen(c) == c \in Letters \cup Digits \cup {"'", "/"}
IsItemChar(c) == c \in Letters \cup Digits \cup {"'", "/", "-"}

\* re.sub(r"[^A-Za-z0-9'/-]+", " ", txt): each maximal run of characters
\* outside the class becomes one space.
RECURSIVE SkipRun(_)
SkipRun(s) == IF s # <<>> /\ ~IsItemChar(Head(s)) THEN SkipRun(Tail(s)) ELSE s

RECURSIVE SubRuns(_)
SubRuns(s) ==
  IF s = <<>> THEN <<>>
  ELSE IF IsItemChar(Head(s)) THEN <<Head(s)>> \o SubRuns(Tail(s))
       ELSE <<" ">> \o SubRuns(SkipRun(s))

\* " ".join(words)
RECURSIVE Join(_)
Join(ws) ==
  IF ws = <<>> THEN <<>>
  ELSE IF Len(ws) = 1 THEN ws[1]
       ELSE ws[1] \o <<" ">> \o Join(Tail(ws))

\* Line 44: the numeric token replaces the quantity held so far.
QtyAcceptLast(conf, thr, qty_conf) == conf >= thr /\ conf >= qty_conf
QtyAccept(conf, thr, qty_conf) == conf >= thr /\ conf > qty_conf

\* Lines 40-50: the scan over the tokens of the line.
RECURSIVE Scan(_, _, _, _, _)
Scan(toks, thr, qty, qty_conf, words) ==
  IF toks = <<>> THEN <<qty, words>>
  ELSE LET txt == Head(toks)[3]
           conf == Head(toks)[4]
       IN  IF IsDigit(txt)
           THEN IF QtyAccept(conf, thr, qty_conf)
                THEN Scan(Tail(toks), thr, Some(IntOfDigits(txt)), conf, words)
                ELSE Scan(Tail(toks), thr, qty, qty_conf, words)
           ELSE IF AlphaSearch(txt)
                THEN LET t == Strip(SubRuns(txt))
                     IN  IF Len(t) >= ITEM_TOKEN_MIN_LEN
                         THEN Scan(Tail(toks), thr, qty, qty_conf, Append(words, t))
                         ELSE Scan(Tail(toks), thr, qty, qty_conf, words)
                ELSE Scan(Tail(toks), thr, qty, qty_conf, words)

\* Lines 39-52: (item, qty).
extract_line_item_and_qty(toks, thr) ==
  LET r == Scan(toks, thr, None, -1, <<>>)
      joined == Strip(Join(r[2]))
  IN  << IF joined = <<>> THEN None ELSE Some(joined), r[1] >>

\* The token texts tried: digit strings (one with a leading zero), words, and
\* words with characters outside the class, at either end and inside.
NumTexts == { <<"7">>, <<"0", "9">>, <<"1", "2">> }
WordTexts == { <<"a">>, <<"a", "b">>, <<"a", "@">>, <<"@", "a", "-">>, <<"a", "@", "!", "b">>,
               <<"7", "a">>, <<"7", "-">>, <<"@">>, <<"-", "/">>, <<"a", "'", "@">>, <<"b", ".", "c">> }
ConfLevels == {-1, 60, 85}
Thresholds == {0, 85, 100}
LineTokens ==
  { <<0, 0, t, c>> : t \in NumTexts, c \in ConfLevels }
  \cup { <<0, 0, t, 85>> : t \in WordTexts }

InitExtract ==
  /\ pc = "start"
  /\ tokens \in SeqsUpTo(LineTokens, MaxTokens)
  /\ conf_threshold \in Thresholds
  /\ item_qty = <<None, None>>
  /\ IdleGrp /\ IdleEiq /\ IdleSan /\ IdleSum /\ IdleEml /\ IdlePar

ExtractLine ==
  /\ pc = "start"
  /\ item_qty' = extract_line_item_and_qty(tokens, conf_threshold)
  /\ pc' = "done"
  /\ UNCHANGED <<tokens, conf_threshold, grpVars, eiqVars, sanVars, sumVars, emlVars, parVars>>

NextExtract == ExtractLine

SpecExtract == InitExtract /\ [][NextExtract]_vars

\* The digit-only tokens of the line whose confidence reaches the threshold.
Eligible == {i \in DOMAIN tokens : IsDigit(tokens[i][3]) /\ tokens[i][4] >= conf_threshold}

InClass(c) == c \in Letters \cup Digits \cup {"'", "/", "-"}
ToSpaces(t) == [i \in DOMAIN t |-> IF InClass(t[i]) THEN t[i] ELSE " "]
KeptAt(u) == {i \in DOMAIN u : ~(u[i] = " " /\ i > 1 /\ u[IF i > 1 THEN i - 1 ELSE 1] = " ")}
RECURSIVE Pick(_, _, _)
Pick(u, S, i) ==
  IF i > Len(u) THEN <<>>
  ELSE (IF i \in S THEN <<u[i]>> ELSE <<>>) \o Pick(u, S, i + 1)
Cleaned(t) == LET u == ToSpaces(t) IN Strip(Pick(u, KeptAt(u), 1))

\* C3: the item is the cleaned tokens of length at least 2, in line order and
\* joined by single spaces, of the tokens that are not digit-only and hold a
\* letter; no digit-only token contributes; nothing left gives item = null.
C3_ItemText ==
  pc = "done" =>
    LET HoldsLetter(t) == ~IsDigit(t[3]) /\ (\E i \in DOMAIN t[3] : t[3][i] \in Letters)
        sel == SelectSeq(tokens, HoldsLetter)
        cl == [i \in DOMAIN sel |-> Cleaned(sel[i][3])]
        LongEnough(w) == Len(w) >= 2
        kept == SelectSeq(cl, LongEnough)
    IN  item_qty[1] = IF kept = <<>> THEN None ELSE Some(Join(kept))

\* C3 witness: a line with a digit-only token and a word holding characters
\* outside the class and a hyphen; the item is the cleaned word alone.
C3_Witness ==
  /\ pc = "done"
  /\ Len(tokens) = 2
  /\ IsDigit(tokens[1][3])
  /\ tokens[2][3] = <<"@", "a", "-">>
  /\ item_qty[1] = Some(<<"a", "-">>)

(***************************************************************************)
(* ocr_items.py: extract_items_quantities.  The image is held as the       *)
(* dictionary the OCR engine returns for it.                               *)
(***************************************************************************)
MaxWords == 3
DEFAULT_Y_TOL == 12
DEFAULT_CONF_THRESHOLD == 80

\* Line 71: the line gives no row.
DiscardRuleOr(item, qty) == item = None \/ qty = None
DiscardRule(item, qty) == item = None /\ qty = None

\* Lines 68-73: one row per line that is not discarded.
RECURSIVE BuildRows(_, _)
BuildRows(ls, thr) ==
  IF ls = <<>> THEN <<>>
  ELSE LET r == extract_line_item_and_qty(Head(ls), thr)
       IN  IF DiscardRule(r[1], r[2]) THEN BuildRows(Tail(ls), thr)
           ELSE <<[item |-> r[1], quantity |-> r[2]]>> \o BuildRows(Tail(ls), thr)

\* Line 77: the row is kept.  A string is true when it is not empty.
Retained(r) ==
  \/ r.item # None /\ r.item[1] # <<>> /\ AlphaSearch(r.item[1])
  \/ r.quantity # None

\* Lines 66-80 (the OCR call of line 65 gives d).
extract_items_quantities(d, thr) ==
  SelectSeq(BuildRows(group_lines(d, DEFAULT_Y_TOL), thr), Retained)

ImgEntries ==
  { [text |-> t, conf |-> <<170>>, top |-> y, left |-> 0] :
      t \in { <<"7">>, <<"0">>, <<"a", "b">>, <<"a">>, <<"@">>, <<" ">> }, y \in {0, 20} }
  \cup { [text |-> <<"7">>, conf |-> <<121>>, top |-> y, left |-> 0] : y \in {0, 20} }

InitEiq ==
  /\ pc = "start"
  /\ img \in SeqsUpTo(ImgEntries, MaxWords)
  /\ conf_threshold \in {0, DEFAULT_CONF_THRESHOLD}
  /\ df_out = <<>>
  /\ data = <<>> /\ y_tol = 0 /\ lines = <<>>
  /\ tokens = <<>> /\ item_qty = <<None, None>>
  /\ IdleSan /\ IdleSum /\ IdleEml /\ IdlePar

ExtractItemsQuantities ==
  /\ pc = "start"
  /\ df_out' = extract_items_quantities(img, conf_threshold)
  /\ pc' = "done"
  /\ UNCHANGED <<img, conf_threshold, tokens, item_qty, grpVars, sanVars, sumVars, emlVars, parVars>>

NextEiq == ExtractItemsQuantities

SpecEiq == InitEiq /\ [][NextEiq]_vars

\* The extraction of each Line of the image, in line order.
LineResults ==
  LET ls == group_lines(img, DEFAULT_Y_TOL)
  IN  [i \in DOMAIN ls |-> extract_line_item_and_qty(ls[i], conf_threshold)]

\* C4: every Record has a non-null item that holds a letter, or a non-null
\* quantity; and the Records are, in line order, exactly one per Line whose
\* extraction gives a non-null item or a non-null quantity, none for a Line
\* that gives both null.
C4_Records ==
  pc = "done" =>
    LET HasField(r) == r[1] # None \/ r[2] # None
        live == SelectSeq(LineResults, HasField)
    IN  /\ \A i \in DOMAIN df_out :
             \/ df_out[i].item # None /\ (\E k \in DOMAIN df_out[i].item[1] : df_out[i].item[1][k] \in Letters)
             \/ df_out[i].quantity # None
        /\ Len(df_out) = Len(live)
        /\ \A i \in DOMAIN live : df_out[i] = [item |-> live[i][1], quantity |-> live[i][2]]

\* C4 witness: an image of two Lines and one Record: one Line gives both fields
\* null, the other gives quantity 0 and no item.
C4_Witness ==
  /\ pc = "done"
  /\ Len(LineResults) = 2
  /\ \E i \in {1, 2} : LineResults[i] = <<None, None>>
  /\ df_out = <<[item |-> None, quantity |-> Some(0)]>>

(***************************************************************************)
(* utils.py: sanitize_quantity_range.  A quantity is None, an int, a       *)
(* float (held in halves: num = 7 is 3.5), the float nan, or a string.     *)
(***************************************************************************)
MaxQty == 3

QNone == [kind |-> "none", num |-> 0, txt |-> <<>>]
QInt(n) == [kind |-> "int", num |-> n, txt |-> <<>>]
QFloat(h) == [kind |-> "float", num |-> h, txt |-> <<>>]
QNan == [kind |-> "nan", num |-> 0, txt |-> <<>>]
QStr(s) == [kind |-> "str", num |-> 0, txt |-> s]

\* int(s) of a string: surrounding whitespace and one sign are allowed, the
\* rest must be digits; anything else raises ValueError (None here).
IntOfStr(s) ==
  LET t == Strip(s)
      signed == t # <<>> /\ Head(t) \in {"-", "+"}
      body == IF signed THEN Tail(t) ELSE t
  IN  IF IsDigit(body)
      THEN Some(IF signed /\ Head(t) = "-" THEN -IntOfDigits(body) ELSE IntOfDigits(body))
      ELSE None

\* Line 28, int(q): an int is itself, a float is truncated toward zero, nan
\* raises ValueError, a string is parsed.  None here when it raises.
IntOf(v) ==
  CASE v.kind = "int" -> Some(v.num)
    [] v.kind = "float" -> Some(Trunc(v.num, 2))
    [] v.kind = "str" -> IntOfStr(v.txt)
    [] OTHER -> None

\* Line 31: the range test.
OutOfRange(iv, lo, hi) == iv < lo \/ iv > hi

\* Lines 24-33.
sanitize_quantity_range(v, lo, hi) ==
  IF v.kind = "none" THEN None
  ELSE LET iv == IntOf(v)
       IN  IF iv = None THEN None
           ELSE IF OutOfRange(iv[1], lo, hi) THEN None
                ELSE Some(iv[1])

Quantities ==
  {QNone, QNan}
  \cup {QInt(n) : n \in -1..(MaxQty + 1)}
  \cup {QFloat(h) : h \in -3..(2 * MaxQty + 3)}
  \cup {QStr(s) : s \in { <<"2">>, <<" ", "2">>, <<"-", "1">>, <<"2", ".", "5">>, <<"x">>, <<>> }}

InitSanitize ==
  /\ pc = "start"
  /\ q \in Quantities
  /\ min_q \in 0..MaxQty
  /\ max_q \in min_q..MaxQty
  /\ sanitized = None
  /\ IdleGrp /\ IdleExt /\ IdleEiq /\ IdleSum /\ IdleEml /\ IdlePar

Sanitize ==
  /\ pc = "start"
  /\ sanitized' = sanitize_quantity_range(q, min_q, max_q)
  /\ pc' = "done"
  /\ UNCHANGED <<q, min_q, max_q, grpVars, extVars, eiqVars, sumVars, emlVars, parVars>>

NextSanitize == Sanitize

SpecSanitize == InitSanitize /\ [][NextSanitize]_vars

\* Twice the value of a numeric quantity.
IsNumber(v) == v.kind \in {"int", "float"}
Twice(v) == IF v.kind = "int" THEN 2 * v.num ELSE v.num

\* C5: an integer within [min_qty, max_qty] is returned unchanged; null, a
\* value that does not parse as an integer, a value below min_qty and a value
\* above max_qty give null.
C5_Sanitize ==
  pc = "done" =>
    /\ (q.kind = "int" /\ min_q <= q.num /\ q.num <= max_q) => sanitized = Some(q.num)
    /\ q.kind = "none" => sanitized = None
    /\ (q.kind # "none" /\ IntOf(q) = None) => sanitized = None
    /\ (IsNumber(q) /\ Twice(q) < 2 * min_q) => sanitized = None
    /\ (IsNumber(q) /\ Twice(q) > 2 * max_q) => sanitized = None

(***************************************************************************)
(* utils.py: summarize_by_item.  A row of the frame is an (item, quantity) *)
(* Record; its quantity cell is null, a number or a non-numeric object.    *)
(***************************************************************************)
MaxRecords == 3

Items == {"Broccoli", "Rice", "Soup"}
\* The items in the order groupby(sort = True) gives the group keys.
SortedItems == <<"Broccoli", "Rice", "Soup">>

CellNull == [kind |-> "null", val |-> 0]
CellNum(n) == [kind |-> "num", val |-> n]
CellText == [kind |-> "text", val |-> 0]

\* Line 17, pd.to_numeric(errors = "coerce"): NaN (None here) for what is no number.
ToNumeric(c) == IF c.kind = "num" THEN Some(c.val) ELSE None

\* Line 19, the sum of a group: NaN is skipped, an all-NaN group sums to 0.
RECURSIVE GroupSum(_, _)
GroupSum(d, it) ==
  IF d = <<>> THEN 0
  ELSE LET r == Head(d)
           n == ToNumeric(r.quantity)
       IN  (IF r.item = Some(it) /\ n # None THEN n[1] ELSE 0) + GroupSum(Tail(d), it)

\* Lines 16-20: the rows with an item, grouped by item, one row per key.
Grouped(d) ==
  LET Present(it) == \E i \in DOMAIN d : d[i].item = Some(it)
      keys == SelectSeq(SortedItems, Present)
  IN  [i \in DOMAIN keys |-> [item |-> keys[i], total_quantity |-> GroupSum(d, keys[i])]]

Perms(n) == {p \in [1..n -> 1..n] : \A i, j \in 1..n : p[i] = p[j] => i = j}

\* Line 21, sort_values(ascending = False) with the default kind, quicksort,
\* which is not stable: any arrangement with the totals descending.
SortOutcomesAscending(g) ==
  { [i \in DOMAIN g |-> g[p[i]]] : p \in
      {p \in Perms(Len(g)) : \A i \in 1..(Len(g) - 1) :
          g[p[i]].total_quantity <= g[p[i + 1]].total_quantity} }
SortOutcomes(g) ==
  { [i \in DOMAIN g |-> g[p[i]]] : p \in
      {p \in Perms(Len(g)) : \A i \in 1..(Len(g) - 1) :
          g[p[i]].total_quantity >= g[p[i + 1]].total_quantity} }

\* Lines 13-22: the results a call can give.
summarize_by_item(d) == IF d = <<>> THEN {<<>>} ELSE SortOutcomes(Grouped(d))

RecordPool ==
  { [item |-> it, quantity |-> c] :
      it \in {None} \cup {Some(x) : x \in Items},
      c \in {CellNull, CellText, CellNum(1), CellNum(2)} }

InitSummarize ==
  /\ pc = "start"
  /\ df \in SeqsUpTo(RecordPool, MaxRecords)
  /\ agg = <<>>
  /\ IdleGrp /\ IdleExt /\ IdleEiq /\ IdleSan /\ IdleEml /\ IdlePar

Summarize ==
  /\ pc = "start"
  /\ agg' \in summarize_by_item(df)
  /\ pc' = "done"
  /\ UNCHANGED <<df, grpVars, extVars, eiqVars, sanVars, emlVars, parVars>>

NextSummarize == Summarize

SpecSummarize == InitSummarize /\ [][NextSummarize]_vars

\* The sum of the numeric quantities of the Records of an item.
NumericAt(i) == df[i].quantity.kind = "num"
RECURSIVE SumUpTo(_, _)
SumUpTo(it, n) ==
  IF n = 0 THEN 0
  ELSE SumUpTo(it, n - 1) + (IF df[n].item = Some(it) /\ NumericAt(n) THEN df[n].quantity.val ELSE 0)

\* C6: one row per distinct non-null item of the input and no other row; a
\* row's total is the sum of the numeric quantities of its item's Records;
\* the totals descend; an empty input gives an empty result.
C6_Summarize ==
  pc = "done" =>
    /\ {agg[i].item : i \in DOMAIN agg} = {it \in Items : \E i \in DOMAIN df : df[i].item = Some(it)}
    /\ \A i, j \in DOMAIN agg : agg[i].item = agg[j].item => i = j
    /\ \A i \in DOMAIN agg : agg[i].total_quantity = SumUpTo(agg[i].item, Len(df))
    /\ \A i \in 1..(Len(agg) - 1) : agg[i].total_quantity >= agg[i + 1].total_quantity
    /\ df = <<>> => agg = <<>>

\* C6 witness: three Records, one without an item, one item whose only quantity
\* is not numeric (total 0), one item with a positive total, that one first.
C6_Witness ==
  /\ pc = "done"
  /\ Len(df) = 3
  /\ \E i \in DOMAIN df : df[i].item = None /\ df[i].quantity.kind = "num"
  /\ \E i \in DOMAIN df : df[i].item # None /\ df[i].quantity.kind = "text"
  /\ Len(agg) = 2
  /\ agg[1].total_quantity > 0
  /\ agg[2].total_quantity = 0

ItemRank(it) == CHOOSE k \in DOMAIN SortedItems : SortedItems[k] = it

\* C7: rows with equal totals keep the relative order the grouping gave them.
C7_StableTies ==
  pc = "done" =>
    \A i, j \in DOMAIN agg :
      (i < j /\ agg[i].total_quantity = agg[j].total_quantity)
        => ItemRank(agg[i].item) < ItemRank(agg[j].item)

(***************************************************************************)
(* emailer.py.  The environment holds which credentials are set; what the  *)
(* network does is chosen when the call is made.  A call ends by returning *)
(* (ok, reason) or by raising.  transport holds the call made to a         *)
(* transport function: its name and its positional arguments.              *)
(***************************************************************************)
Returned(ok, reason) == [kind |-> "return", ok |-> ok, reason |-> reason]
Raised(exc) == [kind |-> "raise", ok |-> FALSE, reason |-> exc]

HttpResults == {"200", "202", "400", "500", "ConnectionError"}
SmtpResults == {"sent", "SMTPException"}

\* Lines 8-33, called with the positional arguments a.
send_via_sendgrid(a, e, importable, http) ==
  IF Len(a) # 6 THEN Raised("TypeError")
  ELSE IF ~e.sendgrid_key THEN Returned(FALSE, "SENDGRID_API_KEY not set")
  ELSE IF ~importable THEN Returned(FALSE, "requests/base64 not available")
  ELSE IF http = "ConnectionError" THEN Raised("ConnectionError")
  ELSE IF http \in {"200", "202"} THEN Returned(TRUE, "Sent")
  ELSE Returned(FALSE, "SendGrid error " \o http)

\* Lines 35-59, called with the positional arguments a: the function has six
\* parameters without defaults.
send_via_smtp(a, e, smtp) ==
  IF Len(a) # 6 THEN Raised("TypeError")
  ELSE IF ~e.smtp_pass THEN Returned(FALSE, "SMTP_PASS not set")
  ELSE IF smtp = "SMTPException" THEN Raised("SMTPException")
  ELSE Returned(TRUE, "Sent")

\* Line 63: the arguments of the call to _send_via_sendgrid.
SendgridArgs(m) ==
  <<m.sender, m.recipient, m.subject, m.body_text, m.attachment_bytes, m.attachment_name>>

\* Line 64: the arguments of the call to _send_via_smtp.
SmtpArgs(m) ==
  <<m.sender, m.recipient, m.subject, m.body_text, m.attachment_name>>

\* Lines 61-64: the call made and how it ends.
send_email_with_attachment(m, e, importable, http, smtp) ==
  IF e.sendgrid_key
  THEN [call |-> <<[via |-> "sendgrid", args |-> SendgridArgs(m)]>>,
        ends |-> send_via_sendgrid(SendgridArgs(m), e, importable, http)]
  ELSE [call |-> <<[via |-> "smtp", args |-> SmtpArgs(m)]>>,
        ends |-> send_via_smtp(SmtpArgs(m), e, smtp)]

Mails ==
  [sender : {"cook@smc.edu", "chef@smc.edu"},
   recipient : {"office@smc.edu", "dean@smc.edu"},
   subject : {"Prep log"},
   body_text : {"See attached."},
   attachment_bytes : {"item,quantity", "item,quantity;Rice,5"},
   attachment_name : {"log.csv", "export.csv"}]

InitEmail ==
  /\ pc = "start"
  /\ env \in [sendgrid_key : BOOLEAN, smtp_pass : BOOLEAN]
  /\ mail \in Mails
  /\ transport = <<>>
  /\ outcome = <<>>
  /\ IdleGrp /\ IdleExt /\ IdleEiq /\ IdleSan /\ IdleSum /\ IdlePar

SendEmail ==
  /\ pc = "start"
  /\ \E importable \in BOOLEAN, http \in HttpResults, smtp \in SmtpResults :
       LET r == send_email_with_attachment(mail, env, importable, http, smtp)
       IN  /\ transport' = r.call
           /\ outcome' = <<r.ends>>
  /\ pc' = "done"
  /\ UNCHANGED <<env, mail, grpVars, extVars, eiqVars, sanVars, sumVars, parVars>>

NextEmail == SendEmail

SpecEmail == InitEmail /\ [][NextEmail]_vars

\* C8: under every credential configuration the transport the credentials
\* select is called with sender, recipient, subject, body, attachment bytes and
\* attachment name, and the call ends by returning (success, reason) to the
\* caller: no failure leaves it as an exception.
C8_Delivery ==
  pc = "done" =>
    /\ transport[1].via = (IF env.sendgrid_key THEN "sendgrid" ELSE "smtp")
    /\ transport[1].args = <<mail.sender, mail.recipient, mail.subject, mail.body_text,
                             mail.attachment_bytes, mail.attachment_name>>
    /\ outcome[1].kind = "return"

(***************************************************************************)
(* app.py: parse_ocr_text, from the rows the pattern of line 98 found,     *)
(* title-cased (lines 104-106).  Quantities are held exactly, in sixths of *)
(* a pound (6 is 1 lb), so that a half and a third of a whole quantity are *)
(* whole numbers; the rounding of binary floating point is not modelled.   *)
(***************************************************************************)
MaxRows == 2
MaxLbs == 2

SP == <<" ">>
RoastedBroccoli == <<"R", "o", "a", "s", "t", "e", "d", " ", "B", "r", "o", "c", "c", "o", "l", "i">>
TeriyakiChicken == <<"T", "e", "r", "i", "y", "a", "k", "i", " ", "C", "h", "i", "c", "k", "e", "n">>
Rice == <<"R", "i", "c", "e">>
FriedRice == <<"F", "r", "i", "e", "d", " ", "R", "i", "c", "e">>
Soup == <<"S", "o", "u", "p">>

\* Line 109.
menu_items == <<RoastedBroccoli, TeriyakiChicken, Rice>>

\* m in item: m occurs in item as a run of consecutive characters.
Contains(item, m) ==
  \E k \in 0..(Len(item) - Len(m)) : SubSeq(item, k + 1, k + Len(m)) = m

\* Line 115.
Found(item) == SelectSeq(menu_items, LAMBDA m : Contains(item, m))

\* Line 117: the share of each matched entry.
SplitQtyWhole(qty, k) == qty
SplitQty(qty, k) == qty \div k

\* Lines 112-121: the rows a parsed row becomes.
FixedOf(row) ==
  LET found == Found(row.Item)
  IN  IF Len(found) > 1
      THEN [i \in DOMAIN found |->
              [Date |-> row.Date, Item |-> found[i], Quantity |-> SplitQty(row.Quantity, Len(found))]]
      ELSE <<row>>

RECURSIVE FixedRows(_)
FixedRows(rs) == IF rs = <<>> THEN <<>> ELSE FixedOf(Head(rs)) \o FixedRows(Tail(rs))

RECURSIVE SumWhere(_, _, _)
SumWhere(rs, d, it) ==
  IF rs = <<>> THEN 0
  ELSE (IF Head(rs).Date = d /\ Head(rs).Item = it THEN Head(rs).Quantity ELSE 0)
       + SumWhere(Tail(rs), d, it)

\* The dates and the items of the rows tried, each in the order groupby sorts
\* its keys (the order of the strings).
SortedDates == <<"10/21", "10/22">>
SortedOutItems == <<FriedRice, Rice, RoastedBroccoli, Soup, TeriyakiChicken>>
SortedKeys ==
  [n \in 1..(Len(SortedDates) * Len(SortedOutItems)) |->
     <<SortedDates[((n - 1) \div Len(SortedOutItems)) + 1],
       SortedOutItems[((n - 1) % Len(SortedOutItems)) + 1]>>]

\* Line 132, round(1): the nearest tenth of s sixths (5s / 3 is never half-way).
Round1(s) == (10 * s + 3) \div 6

\* Lines 126-132: one row per (Date, Item) of the fixed rows, with the sum
\* (Sixths) and the sum rounded to one decimal (Tenths).
Aggregate(fixed) ==
  LET Present(key) == \E i \in DOMAIN fixed : fixed[i].Date = key[1] /\ fixed[i].Item = key[2]
      keys == SelectSeq(SortedKeys, Present)
  IN  [i \in DOMAIN keys |->
         LET s == SumWhere(fixed, keys[i][1], keys[i][2])
         IN  [Date |-> keys[i][1], Item |-> keys[i][2], Sixths |-> s, Tenths |-> Round1(s)]]

\* Lines 101-133.
parse_rows(rs) == IF rs = <<>> THEN <<>> ELSE Aggregate(FixedRows(rs))

ParsedItems ==
  { Rice, TeriyakiChicken, FriedRice, Soup,
    TeriyakiChicken \o SP \o Rice,
    RoastedBroccoli \o SP \o Rice,
    RoastedBroccoli \o SP \o TeriyakiChicken \o SP \o Rice }

ParsedRows ==
  { [Date |-> d, Item |-> it, Quantity |-> 6 * n] :
      d \in {"10/21", "10/22"}, it \in ParsedItems, n \in 1..MaxLbs }

InitParse ==
  /\ pc = "start"
  /\ rows \in SeqsUpTo(ParsedRows, MaxRows)
  /\ aggregated = <<>>
  /\ IdleGrp /\ IdleExt /\ IdleEiq /\ IdleSan /\ IdleSum /\ IdleEml

ParseOcrText ==
  /\ pc = "start"
  /\ aggregated' = parse_rows(rows)
  /\ pc' = "done"
  /\ UNCHANGED <<rows, grpVars, extVars, eiqVars, sanVars, sumVars, emlVars>>

NextParse == ParseOcrText

SpecParse == InitParse /\ [][NextParse]_vars

\* The vocabulary entries a parsed item contains.
Matches(item) == {m \in {RoastedBroccoli, TeriyakiChicken, Rice} : Contains(item, m)}

\* What parsed row n gives to the aggregated row of (d, it): its quantity over
\* k for each of its k > 1 matched entries, its whole quantity for its own item
\* when it matches at most one entry.
Share(n, d, it) ==
  LET k == Cardinality(Matches(rows[n].Item))
  IN  IF rows[n].Date # d THEN 0
      ELSE IF k > 1 THEN (IF it \in Matches(rows[n].Item) THEN rows[n].Quantity \div k ELSE 0)
      ELSE (IF it = rows[n].Item THEN rows[n].Quantity ELSE 0)

RECURSIVE ShareSum(_, _, _)
ShareSum(n, d, it) == IF n = 0 THEN 0 ELSE ShareSum(n - 1, d, it) + Share(n, d, it)

RECURSIVE DateSum(_, _, _)
DateSum(rs, d, n) ==
  IF n = 0 THEN 0
  ELSE DateSum(rs, d, n - 1) + (IF rs[n].Date = d THEN rs[n].Quantity ELSE 0)

AggDateSum(d) ==
  LET sx == [i \in DOMAIN aggregated |-> [Date |-> aggregated[i].Date, Quantity |-> aggregated[i].Sixths]]
  IN  DateSum(sx, d, Len(sx))

====
